---- MODULE Spec2Model ----
(***************************************************************************)
(* A model of the seekable-iterator crate: the k-way MergingIter over      *)
(* TestIter components (merging_iter.rs, test_iter.rs) and the two buffer  *)
(* pools behind PooledIter and ThreadsafePooledIter (pooled_iter.rs,       *)
(* threadsafe_pooled_iter.rs).                                             *)
(*                                                                         *)
(* Encoding of the Rust values:                                            *)
(*   Option<usize> cursor       NoneIdx (-1) is None, i >= 0 is Some(i)    *)
(*   Option<NonZero<usize>>     0 is None, i >= 1 is Some(i), the index of *)
(*                              the component plus one, as the code keeps  *)
(*   &[u8]                      a sequence; slice index i is element i + 1 *)
(*   Option<&u8> item           NoneIdx is None, otherwise the key         *)
(***************************************************************************)
EXTENDS Integers, Sequences, FiniteSets, Bags, TLC

\* ------------------------------------------------------------------ bounds

\* Keys are 0..MaxKey; seek bounds range over 0..MaxKey+1.
MaxKey == 2
\* The most entries one component holds.
MaxLen == 2
\* The most component iterators a MergingIter is built over.
MaxIters == 2
\* Components that hold equal keys draw their keys from 0..MaxDupKey.
MaxDupKey == 1
\* Components that hold equal keys hold at most MaxDupItems items in all.
MaxDupItems == 4
\* The iterator under a pool lends the items 0..MaxItem.
MaxItem == 1
\* The most buffers a pooled iterator is built with.
MaxBuffers == 2
\* The threads that use a ThreadsafePooledIter and its items.
NumThreads == 2

Keys == 0..MaxKey
SeekKeys == 0..(MaxKey + 1)
NoneIdx == 0 - 1

VARIABLES
    data,          \* MergingIter.iterators[i].data, i in 1..Len(data)
    cursor,        \* MergingIter.iterators[i].cursor
    current_iter,  \* MergingIter.current_iter
    direction,     \* MergingIter.direction
    last,          \* the last public call on the MergingIter and the state it was made in
    run,           \* the traversal under way: how it started, its kind, whether it ended
    trace,         \* the items (component, index) the traversal has visited, in order
    variant,       \* the pooled iterator in use: "PooledIter" or "ThreadsafePooledIter"
    num_buffers,   \* the num_buffers argument of its `new`
    inner,         \* the wrapped iterator `iter`: a TestIter, [data, cursor]
    pool,          \* the Vec<Option<OwnedItem>>: NoneIdx is None (checked out), else Some(buffer)
    items,         \* the bag of live PoolItems: [item, pool_slot]
    pc,            \* where each thread is inside `new` or fill_buffer
    pending,       \* the call each thread is inside
    mutex,         \* the thread holding the Mutex of the threadsafe pool, 0 when free
    poisoned,      \* the poison flag of that Mutex
    plast,         \* the last pooled-iterator call that returned or panicked
    hist,          \* drops observed: since a thread blocked, and since the last acquisition
    adapter        \* the PooledLenderAdapter or PooledLendingIteratorAdapter around the
                   \* PooledIter, if any: its kind and its field `item`

mvars == <<data, cursor, current_iter, direction, last, run, trace>>
pvars ==
    <<variant, num_buffers, inner, pool, items, pc, pending, mutex, poisoned, plast, hist,
      adapter>>
vars == <<mvars, pvars>>

\* ------------------------------------------------- comparator.rs, test_iter.rs

\* DefaultComparator::cmp on u8 keys.
cmp(lhs, rhs) ==
    IF lhs < rhs THEN "Less" ELSE IF lhs = rhs THEN "Equal" ELSE "Greater"

\* usize::checked_sub, the None of the Option as NoneIdx.
checked_sub(a, b) == IF a >= b THEN a - b ELSE NoneIdx

\* data.is_sorted()
is_sorted(d) == \A j \in 1..(Len(d) - 1) : d[j] <= d[j + 1]

\* TestIter::new accepts d: sorted, and no two neighbours equal.
TestIter_new(d) ==
    is_sorted(d) /\ \A j \in 1..(Len(d) - 1) : d[j] # d[j + 1]

\* <[u8]>::binary_search on a sorted slice: Ok(index of a match), any of the
\* matches when there are several, or Err(insertion point).
binary_search(d, k) ==
    LET matches == {j \in 1..Len(d) : d[j] = k}
    IN  IF matches # {}
        THEN {[ok |-> TRUE, idx |-> j - 1] : j \in matches}
        ELSE {[ok |-> FALSE, idx |-> Cardinality({j \in 1..Len(d) : d[j] < k})]}

\* TestIter::current: the item under the cursor.
TestIter_current(d, c) == IF c = NoneIdx THEN NoneIdx ELSE d[c + 1]

\* TestIter::next that starts at index 1 from the invalid position.
TestIter_next_skips_first(d, c) ==
    LET next_idx == IF c # NoneIdx THEN c + 1 ELSE 1
    IN  IF next_idx < Len(d) THEN next_idx ELSE NoneIdx

\* TestIter::next: the cursor after the call.
TestIter_next(d, c) ==
    LET next_idx == IF c # NoneIdx THEN c + 1 ELSE 0
    IN  IF next_idx < Len(d) THEN next_idx ELSE NoneIdx

\* TestIter::prev that stays at the invalid position instead of wrapping to the
\* last entry.
TestIter_prev_no_wrap(d, c) == IF c # NoneIdx THEN checked_sub(c, 1) ELSE NoneIdx

\* TestIter::prev: the cursor after the call.
TestIter_prev(d, c) ==
    LET current_cursor_idx == IF c # NoneIdx THEN c ELSE Len(d)
    IN  checked_sub(current_cursor_idx, 1)

\* TestIter::reset
TestIter_reset == NoneIdx

\* TestIter::seek that treats a found key like a missing one and lands after it.
TestIter_seek_past_match(d, min_bound) ==
    {IF r.ok
        THEN (IF r.idx + 1 < Len(d) THEN r.idx + 1 ELSE NoneIdx)
        ELSE (IF r.idx < Len(d) THEN r.idx ELSE NoneIdx) :
        r \in binary_search(d, min_bound)}

\* TestIter::seek: the cursors the call can leave.
TestIter_seek(d, min_bound) ==
    {IF r.ok THEN r.idx ELSE IF r.idx < Len(d) THEN r.idx ELSE NoneIdx :
        r \in binary_search(d, min_bound)}

\* TestIter::seek_before without the step back from the search result.
TestIter_seek_before_no_step(d, strict_upper_bound) ==
    {IF r.idx < Len(d) THEN r.idx ELSE NoneIdx : r \in binary_search(d, strict_upper_bound)}

\* TestIter::seek_before: the cursors the call can leave.
TestIter_seek_before(d, strict_upper_bound) ==
    {checked_sub(r.idx, 1) : r \in binary_search(d, strict_upper_bound)}

\* TestIter::seek_to_first: reset, then next.
TestIter_seek_to_first(d) == TestIter_next(d, TestIter_reset)

\* TestIter::seek_to_last that steps forwards from the reset position and so
\* lands on the first entry.
TestIter_seek_to_last_steps_forwards(d) == TestIter_next(d, TestIter_reset)

\* TestIter::seek_to_last: reset, then prev.
TestIter_seek_to_last(d) == TestIter_prev(d, TestIter_reset)

\* ------------------------------------------------------------ merging_iter.rs

NumIters == Len(data)
Iters == 1..NumIters

\* Iter::item_to_key(iterators[i].current().unwrap()) with the cursors cur.
KeyAt(cur, i) == TestIter_current(data[i], cur[i])

\* smallest_from with the comparison slipped from "smaller" to "not greater": a
\* later component at an equal key replaces the best so far.
RECURSIVE smallest_from_not_greater(_, _, _)
smallest_from_not_greater(cur, idx, smallest) ==
    IF idx > NumIters THEN smallest
    ELSE IF cur[idx] # NoneIdx
         THEN IF smallest # 0
              THEN IF cmp(KeyAt(cur, idx), KeyAt(cur, smallest)) # "Greater"
                   THEN smallest_from_not_greater(cur, idx + 1, idx)
                   ELSE smallest_from_not_greater(cur, idx + 1, smallest)
              ELSE smallest_from_not_greater(cur, idx + 1, idx)
         ELSE smallest_from_not_greater(cur, idx + 1, smallest)

\* The loop of find_smallest_iter from component idx on, `smallest` the best so far.
RECURSIVE smallest_from(_, _, _)
smallest_from(cur, idx, smallest) ==
    IF idx > NumIters THEN smallest
    ELSE IF cur[idx] # NoneIdx
         THEN IF smallest # 0
              THEN IF cmp(KeyAt(cur, idx), KeyAt(cur, smallest)) = "Less"
                   THEN smallest_from(cur, idx + 1, idx)
                   ELSE smallest_from(cur, idx + 1, smallest)
              ELSE smallest_from(cur, idx + 1, idx)
         ELSE smallest_from(cur, idx + 1, smallest)

\* The loop of find_largest_iter, from component idx down.
RECURSIVE largest_from(_, _, _)
largest_from(cur, idx, largest) ==
    IF idx < 1 THEN largest
    ELSE IF cur[idx] # NoneIdx
         THEN IF largest # 0
              THEN IF cmp(KeyAt(cur, idx), KeyAt(cur, largest)) = "Greater"
                   THEN largest_from(cur, idx - 1, idx)
                   ELSE largest_from(cur, idx - 1, largest)
              ELSE largest_from(cur, idx - 1, idx)
         ELSE largest_from(cur, idx - 1, largest)

\* find_smallest_iter that stops at the first valid component, whatever its key.
find_smallest_iter_first_valid(cur) ==
    IF \E i \in Iters : cur[i] # NoneIdx
    THEN CHOOSE i \in Iters : cur[i] # NoneIdx /\ \A j \in 1..(i - 1) : cur[j] = NoneIdx
    ELSE 0

\* find_smallest_iter with the comparison reversed: it keeps the largest key.
find_smallest_iter_reversed(cur) == largest_from(cur, NumIters, 0)

\* find_smallest_iter: the new current_iter.
find_smallest_iter(cur) == smallest_from(cur, 1, 0)

\* find_largest_iter with the comparison reversed: it keeps the smallest key.
find_largest_iter_reversed(cur) == smallest_from(cur, 1, 0)

\* find_largest_iter that does not ask whether a component is valid: it keeps
\* the last one.
find_largest_iter_unchecked(cur) == NumIters

\* find_largest_iter: the new current_iter.
find_largest_iter(cur) == largest_from(cur, NumIters, 0)

\* Every way of giving each of the first n components one of the cursors
\* choice[i] allows.
RECURSIVE ChoicesUpTo(_, _)
ChoicesUpTo(choice, n) ==
    IF n = 0
    THEN {<<>>}
    ELSE {Append(f, c) : f \in ChoicesUpTo(choice, n - 1), c \in choice[n]}

\* Every way of giving each component one of the cursors choice[i] allows.
Choices(choice) == ChoicesUpTo(choice, NumIters)

\* switch_to_forwards that leaves the other components where they are.
switch_to_forwards_no_seek(cur, current_idx) == {cur}

\* switch_to_forwards without the step past an equal key.
switch_to_forwards_no_step(cur, current_idx) ==
    Choices([i \in Iters |->
        IF i = current_idx THEN {cur[i]}
        ELSE TestIter_seek(data[i], KeyAt(cur, current_idx))])

\* switch_to_forwards: every other component seeks current_key and steps once
\* more when it landed on an equal key.
switch_to_forwards(cur, current_idx) ==
    LET current_key == KeyAt(cur, current_idx)
        landed(i) ==
            {IF c # NoneIdx /\ cmp(current_key, TestIter_current(data[i], c)) = "Equal"
                 THEN TestIter_next(data[i], c) ELSE c :
                c \in TestIter_seek(data[i], current_key)}
    IN  Choices([i \in Iters |-> IF i = current_idx THEN {cur[i]} ELSE landed(i)])

\* switch_to_backwards that leaves the other components where they are.
switch_to_backwards_no_seek(cur, current_idx) == {cur}

\* switch_to_backwards: every other component seeks before current_key.
switch_to_backwards(cur, current_idx) ==
    LET current_key == KeyAt(cur, current_idx)
    IN  Choices([i \in Iters |->
            IF i = current_idx THEN {cur[i]} ELSE TestIter_seek_before(data[i], current_key)])

\* MergingIter::valid
valid == current_iter # 0

\* self.get_current_iter_ref()?.current() with the cursors cur and current_iter
\* ci, as the key of the item (NoneIdx for None).
MergingIter_current(cur, ci) == IF ci = 0 THEN NoneIdx ELSE KeyAt(cur, ci)

\* MergingIter::current
current == MergingIter_current(cursor, current_iter)

\* A next or prev that returns the item it was called at.
ReturnValue_before_move(cur, ci) == current

\* The last line of next and prev, self.current(): what the call returns, with
\* the cursors cur and current_iter ci it leaves.
ReturnValue(cur, ci) == MergingIter_current(cur, ci)

\* The item MergingIter::current lends: (component, index in its data).
CurrentItem(cur, ci) == <<ci, cur[ci]>>

\* What a call leaves in `last`: its name and argument, the key and direction
\* it found (NoneIdx when the iterator was not valid), and the key of the item
\* it returned (NoneIdx for None and for the calls that return nothing).
Called(name, k, ret) ==
    [op |-> name, arg |-> k, preKey |-> current, preDir |-> direction, ret |-> ret]

NoRun == [kind |-> "none", origin |-> "none", done |-> FALSE]

\* A call that is neither next nor prev ends any traversal.
EndRun == run' = NoRun /\ trace' = <<>>

\* The kind of the traversal a step of `kind` starts when it switches the
\* direction at a valid position.
SwitchRun(kind) == IF kind = "fwd" THEN "fwd_switch" ELSE "bwd_switch"

\* The traversal history after a step of `kind` (next: "fwd", prev: "bwd") that
\* left the cursors cur and current_iter ci. A traversal starts at an invalid
\* position, or at a valid one with a step against the direction; the latter
\* keeps the item it started from at the head of the trace, and the seek that
\* led there, if the step follows one, as its origin.
Step(kind, cur, ci) ==
    IF run.kind \in {kind, SwitchRun(kind)} /\ ~run.done
    THEN IF ci = 0
         THEN run' = [run EXCEPT !.done = TRUE] /\ trace' = trace
         ELSE run' = run /\ trace' = Append(trace, CurrentItem(cur, ci))
    ELSE IF ~valid
         THEN /\ run' = [kind |-> kind,
                         origin |-> IF last.op \in {"new", "reset"} THEN "reset" ELSE "invalid",
                         done |-> ci = 0]
              /\ trace' = IF ci = 0 THEN <<>> ELSE <<CurrentItem(cur, ci)>>
         ELSE IF direction # (IF kind = "fwd" THEN "Forwards" ELSE "Backwards")
              THEN /\ run' = [kind |-> SwitchRun(kind),
                           origin |-> IF last.op \in {"seek", "seek_before"}
                                      THEN last.op ELSE "switch",
                           done |-> ci = 0]
                   /\ trace' = <<CurrentItem(cursor, current_iter)>> \o
                                   (IF ci = 0 THEN <<>> ELSE <<CurrentItem(cur, ci)>>)
              ELSE EndRun

\* MergingIter::next that advances every component, whether or not there is a
\* current one.
MergingIter_next_moves_all ==
    LET cur == [i \in Iters |-> TestIter_next(data[i], cursor[i])]
    IN  /\ cursor' = cur
        /\ current_iter' = find_smallest_iter(cur)
        /\ direction' = "Forwards"
        /\ last' = Called("next", NoneIdx, ReturnValue(cur, find_smallest_iter(cur)))
        /\ Step("fwd", cur, find_smallest_iter(cur))
        /\ UNCHANGED <<data, pvars>>

\* MergingIter::next
MergingIter_next ==
    \E cur \in (IF current_iter # 0
                THEN {[c EXCEPT ![current_iter] = TestIter_next(data[current_iter], c[current_iter])] :
                        c \in (IF direction = "Backwards"
                               THEN switch_to_forwards(cursor, current_iter)
                               ELSE {cursor})}
                ELSE {[i \in Iters |-> TestIter_next(data[i], cursor[i])]}) :
        /\ cursor' = cur
        /\ current_iter' = find_smallest_iter(cur)
        /\ direction' = "Forwards"
        /\ last' = Called("next", NoneIdx, ReturnValue(cur, find_smallest_iter(cur)))
        /\ Step("fwd", cur, find_smallest_iter(cur))
        /\ UNCHANGED <<data, pvars>>

\* MergingIter::prev
MergingIter_prev ==
    \E cur \in (IF current_iter # 0
                THEN {[c EXCEPT ![current_iter] = TestIter_prev(data[current_iter], c[current_iter])] :
                        c \in (IF direction = "Forwards"
                               THEN switch_to_backwards(cursor, current_iter)
                               ELSE {cursor})}
                ELSE {[i \in Iters |-> TestIter_prev(data[i], cursor[i])]}) :
        /\ cursor' = cur
        /\ current_iter' = find_largest_iter(cur)
        /\ direction' = "Backwards"
        /\ last' = Called("prev", NoneIdx, ReturnValue(cur, find_largest_iter(cur)))
        /\ Step("bwd", cur, find_largest_iter(cur))
        /\ UNCHANGED <<data, pvars>>

\* MergingIter::reset without the loop that resets the components.
MergingIter_reset_keeps_cursors ==
    /\ cursor' = cursor
    /\ current_iter' = 0
    /\ direction' = "Forwards"
    /\ last' = Called("reset", NoneIdx, NoneIdx)
    /\ EndRun
    /\ UNCHANGED <<data, pvars>>

\* MergingIter::reset
MergingIter_reset ==
    /\ cursor' = [i \in Iters |-> TestIter_reset]
    /\ current_iter' = 0
    /\ direction' = "Forwards"
    /\ last' = Called("reset", NoneIdx, NoneIdx)
    /\ EndRun
    /\ UNCHANGED <<data, pvars>>

\* MergingIter::seek
MergingIter_seek ==
    \E min_bound \in SeekKeys :
        \E cur \in Choices([i \in Iters |-> TestIter_seek(data[i], min_bound)]) :
            /\ cursor' = cur
            /\ current_iter' = find_smallest_iter(cur)
            /\ direction' = "Forwards"
            /\ last' = Called("seek", min_bound, NoneIdx)
            /\ EndRun
            /\ UNCHANGED <<data, pvars>>

\* MergingIter::seek_before without its last line, self.direction = Backwards.
MergingIter_seek_before_keeps_direction ==
    \E strict_upper_bound \in SeekKeys :
        \E cur \in Choices([i \in Iters |-> TestIter_seek_before(data[i], strict_upper_bound)]) :
            /\ cursor' = cur
            /\ current_iter' = find_largest_iter(cur)
            /\ direction' = direction
            /\ last' = Called("seek_before", strict_upper_bound, NoneIdx)
            /\ EndRun
            /\ UNCHANGED <<data, pvars>>

\* MergingIter::seek_before
MergingIter_seek_before ==
    \E strict_upper_bound \in SeekKeys :
        \E cur \in Choices([i \in Iters |-> TestIter_seek_before(data[i], strict_upper_bound)]) :
            /\ cursor' = cur
            /\ current_iter' = find_largest_iter(cur)
            /\ direction' = "Backwards"
            /\ last' = Called("seek_before", strict_upper_bound, NoneIdx)
            /\ EndRun
            /\ UNCHANGED <<data, pvars>>

\* MergingIter::seek_to_first that makes the first component current without
\* the scan of find_smallest_iter.
MergingIter_seek_to_first_no_scan ==
    LET cur == [i \in Iters |-> TestIter_seek_to_first(data[i])]
    IN  /\ cursor' = cur
        /\ current_iter' = IF NumIters = 0 THEN 0 ELSE 1
        /\ direction' = "Forwards"
        /\ last' = Called("seek_to_first", NoneIdx, NoneIdx)
        /\ EndRun
        /\ UNCHANGED <<data, pvars>>

\* MergingIter::seek_to_first
MergingIter_seek_to_first ==
    LET cur == [i \in Iters |-> TestIter_seek_to_first(data[i])]
    IN  /\ cursor' = cur
        /\ current_iter' = find_smallest_iter(cur)
        /\ direction' = "Forwards"
        /\ last' = Called("seek_to_first", NoneIdx, NoneIdx)
        /\ EndRun
        /\ UNCHANGED <<data, pvars>>

\* MergingIter::seek_to_last that leaves the direction as it was.
MergingIter_seek_to_last_keeps_direction ==
    LET cur == [i \in Iters |-> TestIter_seek_to_last(data[i])]
        ci == find_largest_iter(cur)
    IN  /\ cursor' = cur
        /\ current_iter' = ci
        /\ direction' = direction
        /\ last' = Called("seek_to_last", NoneIdx, NoneIdx)
        /\ run' = [kind |-> "bwd", origin |-> "seek_to_last", done |-> FALSE]
        /\ trace' = IF ci = 0 THEN <<>> ELSE <<CurrentItem(cur, ci)>>
        /\ UNCHANGED <<data, pvars>>

\* MergingIter::seek_to_last; the traversal of the prev calls that follow starts
\* at the item it leaves current.
MergingIter_seek_to_last ==
    LET cur == [i \in Iters |-> TestIter_seek_to_last(data[i])]
        ci == find_largest_iter(cur)
    IN  /\ cursor' = cur
        /\ current_iter' = ci
        /\ direction' = "Backwards"
        /\ last' = Called("seek_to_last", NoneIdx, NoneIdx)
        /\ run' = [kind |-> "bwd", origin |-> "seek_to_last", done |-> FALSE]
        /\ trace' = IF ci = 0 THEN <<>> ELSE <<CurrentItem(cur, ci)>>
        /\ UNCHANGED <<data, pvars>>


Threads == 1..NumThreads

\* The calls that wait for a buffer (or panic), and those that return OutOfBuffers.
BlockingOps == {"next", "current", "prev"}
TryOps == {"try_next", "try_current", "try_prev"}
\* The calls taking &self; the others take &mut self.
SharedOps == {"current", "try_current"}

NoCall == "none"
NoPlast ==
    [op |-> "none", result |-> "none", full |-> FALSE, afterDrop |-> FALSE,
     blocked |-> FALSE, sawDrop |-> FALSE, moved |-> FALSE]
NoHist == [sinceDrop |-> FALSE, blocked |-> [t \in Threads |-> "none"], moved |-> FALSE]

\* Option<I::Item>::None, and the pooled iterator not being inside an adapter.
\* `dropped`: the last next or prev of the adapter found an item in `item` and
\* dropped it before it asked for the new one.
NoItem == [item |-> NoneIdx, pool_slot |-> NoneIdx]
NoAdapter == [kind |-> "none", item |-> NoItem, dropped |-> FALSE]

\* No pooled iterator was built.
NoPooledIter ==
    /\ variant = "none"
    /\ num_buffers = 0
    /\ inner = [data |-> <<>>, cursor |-> NoneIdx]
    /\ pool = <<>>
    /\ items = EmptyBag
    /\ pc = [t \in Threads |-> "idle"]
    /\ pending = [t \in Threads |-> NoCall]
    /\ mutex = 0
    /\ poisoned = FALSE
    /\ plast = NoPlast
    /\ hist = NoHist
    /\ adapter = NoAdapter

\* A pooled iterator of variant v over the TestIter d whose pool is the Vec that
\* `new` reserves: n slots, each Some(OwnedItem::default()), the default of the
\* u8 buffer being 0. The methods are written for this value ("the pool Vec's
\* length is never changed after pool construction"); they are checked from it.
\* PooledIter_new and ThreadsafePooledIter_new below are the constructors as
\* written, which return no such value.
BufferPool(v, d, n) ==
    /\ variant = v
    /\ num_buffers = n
    /\ inner = [data |-> d, cursor |-> NoneIdx]
    /\ pool = [j \in 1..n |-> 0]
    /\ items = EmptyBag
    /\ pc = [t \in Threads |-> "idle"]
    /\ pending = [t \in Threads |-> NoCall]
    /\ mutex = 0
    /\ poisoned = FALSE
    /\ plast = NoPlast
    /\ hist = NoHist
    /\ adapter = NoAdapter

\* The sorted sequences of at most MaxLen keys.
SortedSeqs == {d \in UNION {[1..n -> Keys] : n \in 0..MaxLen} : is_sorted(d)}

\* MergingIter::new over the components ds, each built by TestIter::new.
MergingIter_new(ds) ==
    /\ data = ds
    /\ cursor = [i \in 1..Len(ds) |-> NoneIdx]
    /\ current_iter = 0
    /\ direction = "Forwards"
    /\ last = [op |-> "new", arg |-> NoneIdx, preKey |-> NoneIdx, preDir |-> "Forwards",
               ret |-> NoneIdx]
    /\ run = NoRun
    /\ trace = <<>>

\* The number of items in the first n of the components ds.
RECURSIVE TotalLen(_, _)
TotalLen(ds, n) == IF n = 0 THEN 0 ELSE TotalLen(ds, n - 1) + Len(ds[n])

\* MergingIter::new(vec![TestIter::new(d).unwrap(), ...], DefaultComparator),
\* over components that hold at most MaxLen + MaxIters items in all.
Init ==
    /\ \E ds \in UNION {[1..n -> {d \in SortedSeqs : TestIter_new(d)}] : n \in 0..MaxIters} :
        /\ TotalLen(ds, Len(ds)) <= MaxLen + MaxIters
        /\ MergingIter_new(ds)
    /\ NoPooledIter

Next ==
    \/ MergingIter_next
    \/ MergingIter_prev
    \/ MergingIter_reset
    \/ MergingIter_seek
    \/ MergingIter_seek_before
    \/ MergingIter_seek_to_first
    \/ MergingIter_seek_to_last

Spec == Init /\ [][Next]_vars

\* MergingIter::valid called: it reads current_iter and writes nothing.
MergingIter_valid ==
    /\ last' = Called("valid", NoneIdx, NoneIdx)
    /\ UNCHANGED <<data, cursor, current_iter, direction, run, trace, pvars>>

\* MergingIter::current called: it reads the component current_iter names and
\* writes nothing.
MergingIter_current_called ==
    /\ last' = Called("current", NoneIdx, current)
    /\ UNCHANGED <<data, cursor, current_iter, direction, run, trace, pvars>>

\* The calls of Next and the two calls that take &self.
NextQuery ==
    \/ Next
    \/ MergingIter_valid
    \/ MergingIter_current_called

\* MergingIter::new over components that hold at most MaxLen + 1 items in all.
InitQuery == Init /\ TotalLen(data, NumIters) <= MaxLen + 1

SpecQuery == InitQuery /\ [][NextQuery]_vars

\* The components may hold equal keys, within one component too (the merged
\* collection is "the sorted union (without de-duplication)", merging_iter.rs:24);
\* their keys are 0..MaxDupKey, and they hold at most MaxDupItems items in all.
InitDup ==
    /\ \E ds \in UNION {[1..n -> {d \in SortedSeqs : \A j \in 1..Len(d) : d[j] <= MaxDupKey}] :
                        n \in 0..MaxIters} :
        /\ TotalLen(ds, Len(ds)) <= MaxDupItems
        /\ MergingIter_new(ds)
    /\ NoPooledIter

SpecDup == InitDup /\ [][Next]_vars

\* A call new(TestIter d, n) of the constructor `name` that thread 1 has entered:
\* Vec::new() and reserve_exact(n) are done, the extend is next.
NewCalled(name, d, n) ==
    /\ variant = "none"
    /\ num_buffers = n
    /\ inner = [data |-> d, cursor |-> NoneIdx]
    /\ pool = <<>>
    /\ items = EmptyBag
    /\ pc = [t \in Threads |-> IF t = 1 THEN "new" ELSE "idle"]
    /\ pending = [t \in Threads |-> IF t = 1 THEN name ELSE NoCall]
    /\ mutex = 0
    /\ poisoned = FALSE
    /\ plast = NoPlast
    /\ hist = NoHist
    /\ adapter = NoAdapter

\* --------------------------------- pooled_iter.rs, threadsafe_pooled_iter.rs

\* The find_map over the slots: the index of the first slot that holds a
\* buffer, NoneIdx when every slot is None.
first_some(p) ==
    LET some == {j \in 1..Len(p) : p[j] # NoneIdx}
    IN  IF some = {} THEN NoneIdx ELSE (CHOOSE j \in some : \A m \in some : j <= m) - 1

\* slot.take() that leaves the buffer in the slot (a copy instead of a take).
take_leaves_buffer(p, idx) == p

\* slot.take() on slot idx: the slot is left None.
take(p, idx) == [p EXCEPT ![idx + 1] = NoneIdx]

\* A scan that falls back on slot 0 when no slot holds a buffer.
try_fill_buffer_reuses_slot(p) ==
    LET idx == first_some(p)
    IN  IF idx # NoneIdx
        THEN [ok |-> TRUE, pool |-> take(p, idx), slot |-> idx]
        ELSE IF Len(p) = 0
        THEN [ok |-> FALSE, pool |-> p, slot |-> NoneIdx]
        ELSE [ok |-> TRUE, pool |-> p, slot |-> 0]

\* Pool::try_fill_buffer and ThreadsafePool::try_fill_buffer: the scan, the
\* pool it leaves and the slot of the PoolItem it makes.
try_fill_buffer(p) ==
    LET idx == first_some(p)
    IN  IF idx = NoneIdx
        THEN [ok |-> FALSE, pool |-> p, slot |-> NoneIdx]
        ELSE [ok |-> TRUE, pool |-> take(p, idx), slot |-> idx]

\* The scan of fill_buffer_fallback that takes slot 0 whether or not it holds a buffer.
fallback_scan_any_slot(p) ==
    IF Len(p) = 0
    THEN [ok |-> FALSE, pool |-> p, slot |-> NoneIdx]
    ELSE [ok |-> TRUE, pool |-> take(p, 0), slot |-> 0]

\* The scan inside the loop of ThreadsafePool::fill_buffer_fallback.
fallback_scan(p) ==
    LET idx == first_some(p)
    IN  IF idx = NoneIdx
        THEN [ok |-> FALSE, pool |-> p, slot |-> NoneIdx]
        ELSE [ok |-> TRUE, pool |-> take(p, idx), slot |-> idx]

\* What a call that ends leaves in `plast`. `full`: every one of the N buffers
\* was with a live PoolItem when the call looked for one. `moved`: the call left
\* the inner iterator at another position than it found it.
Returned(op, t, result) ==
    [op |-> op, result |-> result,
     full |-> BagCardinality(items) = Len(pool), afterDrop |-> hist.sinceDrop,
     blocked |-> hist.blocked[t] # "none", sawDrop |-> hist.blocked[t] = "dropped",
     moved |-> hist.moved]

\* The item the inner iterator lends to the call in progress.
LentItem == TestIter_current(inner.data, inner.cursor)

\* A PoolItem whose buffer was not filled: it holds the default value.
PoolItem_not_filled(item, slot) == [item |-> 0, pool_slot |-> slot]

\* The PoolItem made for `item` from slot `slot`: item.clone_into(&mut owned_item)
\* makes the buffer a copy of the lent item.
PoolItem(item, slot) == [item |-> item, pool_slot |-> slot]

\* A slot was handed out to thread t.
Acquired(t) == hist' = [hist EXCEPT !.sinceDrop = FALSE, !.blocked[t] = "none", !.moved = FALSE]

\* A PoolItem was dropped.
Dropped ==
    hist' = [hist EXCEPT !.sinceDrop = TRUE,
                         !.blocked = [t \in Threads |->
                             IF hist.blocked[t] = "blocked" THEN "dropped" ELSE hist.blocked[t]]]

\* pool.extend(iter::repeat_with(|| Some(OwnedItem::default()))) in `new`: the
\* iterator never ends (there is no take(num_buffers)), so the extend cannot
\* return. It fails with "capacity overflow": at once where Vec::extend sees that
\* the iterator has no upper bound (the TrustedLen path of the standard library),
\* and otherwise when the reserved capacity is used up and it reserves room for
\* the rest. Either way `new` panics and returns no iterator.
Vec_extend(name) ==
    /\ pc[1] = "new"
    /\ pending[1] = name
    /\ \/ /\ Len(pool) < num_buffers
          /\ pool' = Append(pool, 0)
          /\ UNCHANGED <<pc, pending, plast>>
       \/ /\ Len(pool) \in {0, num_buffers}
          /\ pc' = [pc EXCEPT ![1] = "panicked"]
          /\ pending' = [pending EXCEPT ![1] = NoCall]
          /\ plast' = Returned(name, 1, "panic")
          /\ UNCHANGED pool
    /\ UNCHANGED <<variant, num_buffers, adapter, inner, items, mutex, poisoned, hist, mvars>>

\* PooledIter::new.
PooledIter_new == Vec_extend("PooledIter::new")

\* ThreadsafePooledIter::new.
ThreadsafePooledIter_new == Vec_extend("ThreadsafePooledIter::new")

\* A drop that writes the buffer into the first slot.
put_back_first_slot(p, x) == [p EXCEPT ![1] = x.item]

\* *pool_slot = Some(ManuallyDrop::take(&mut self.item)) with pool_slot the slot
\* pool_contents[self.pool_slot]: the buffer of PoolItem x goes into its slot.
put_back(p, x) == [p EXCEPT ![x.pool_slot + 1] = x.item]

\* A call on the PooledIter that asks the pool for a buffer before it looks at
\* what the inner iterator yielded.
PooledIter_call_fills_first(op, c) ==
    LET r == try_fill_buffer(pool)
        Ret(result) == [Returned(op, 1, result) EXCEPT !.moved = (c # inner.cursor)]
    IN  /\ variant = "PooledIter"
        /\ adapter.kind = "none"
        /\ pc[1] = "idle"
        /\ inner' = [inner EXCEPT !.cursor = c]
        /\ IF r.ok
           THEN /\ pool' = r.pool
                /\ items' = items (+) SetToBag({PoolItem(TestIter_current(inner.data, c), r.slot)})
                /\ plast' = Ret("Some")
                /\ Acquired(1)
                /\ UNCHANGED pc
           ELSE IF op \in TryOps
           THEN /\ plast' = Ret("OutOfBuffers")
                /\ UNCHANGED <<pool, items, pc, hist>>
           ELSE /\ plast' = Ret("panic")
                /\ pc' = [pc EXCEPT ![1] = "panicked"]
                /\ UNCHANGED <<pool, items, hist>>
        /\ UNCHANGED <<variant, num_buffers, adapter, pending, mutex, poisoned, mvars>>

\* A call on the single-threaded PooledIter that moved the inner cursor to c:
\* None when the inner iterator yields nothing, else Pool::fill_buffer (which
\* panics when out of buffers) or Pool::try_fill_buffer.
PooledIter_call(op, c) ==
    LET item == TestIter_current(inner.data, c)
        r == try_fill_buffer(pool)
        Ret(result) == [Returned(op, 1, result) EXCEPT !.moved = (c # inner.cursor)]
    IN  /\ variant = "PooledIter"
        /\ adapter.kind = "none"
        /\ pc[1] = "idle"
        /\ inner' = [inner EXCEPT !.cursor = c]
        /\ IF item = NoneIdx
           THEN /\ plast' = Ret("None")
                /\ UNCHANGED <<pool, items, pc, hist>>
           ELSE IF r.ok
           THEN /\ pool' = r.pool
                /\ items' = items (+) SetToBag({PoolItem(item, r.slot)})
                /\ plast' = Ret("Some")
                /\ Acquired(1)
                /\ UNCHANGED pc
           ELSE IF op \in TryOps
           THEN /\ plast' = Ret("OutOfBuffers")
                /\ UNCHANGED <<pool, items, pc, hist>>
           ELSE /\ plast' = Ret("panic")
                /\ pc' = [pc EXCEPT ![1] = "panicked"]
                /\ UNCHANGED <<pool, items, hist>>
        /\ UNCHANGED <<variant, num_buffers, adapter, pending, mutex, poisoned, mvars>>

PooledIter_next == PooledIter_call("next", TestIter_next(inner.data, inner.cursor))
PooledIter_try_next == PooledIter_call("try_next", TestIter_next(inner.data, inner.cursor))
PooledIter_current == PooledIter_call("current", inner.cursor)
PooledIter_try_current == PooledIter_call("try_current", inner.cursor)
PooledIter_prev == PooledIter_call("prev", TestIter_prev(inner.data, inner.cursor))
PooledIter_try_prev == PooledIter_call("try_prev", TestIter_prev(inner.data, inner.cursor))

\* A PoolItem::drop that does not give the buffer back.
PoolItem_drop_keeps_buffer ==
    \E x \in BagToSet(items) :
        /\ variant = "PooledIter"
        /\ x # adapter.item
        /\ pc[1] = "idle"
        /\ items' = items (-) SetToBag({x})
        /\ Dropped
        /\ UNCHANGED <<variant, num_buffers, adapter, inner, pool, pc, pending, mutex, poisoned,
                       plast, mvars>>

\* PoolItem::drop: the buffer goes back into the slot the item recorded. The
\* item an adapter keeps in its private field is dropped by the adapter only.
PoolItem_drop ==
    \E x \in BagToSet(items) :
        /\ variant = "PooledIter"
        /\ x # adapter.item
        /\ pc[1] = "idle"
        /\ pool' = put_back(pool, x)
        /\ items' = items (-) SetToBag({x})
        /\ Dropped
        /\ UNCHANGED <<variant, num_buffers, adapter, inner, pc, pending, mutex, poisoned, plast, mvars>>

\* Thread t may enter `op`: it is in no call, and no other thread is inside a
\* call that excludes it (&mut self excludes every other call, &self only those).
CanCall(t, op) ==
    /\ pc[t] = "idle"
    /\ \A u \in Threads \ {t} :
        \/ pc[u] \in {"idle", "panicked"}
        \/ op \in SharedOps /\ pending[u] \in SharedOps

\* Thread t enters a call on the ThreadsafePooledIter that moves the inner
\* cursor to c: it returns None when the inner iterator yields nothing, and
\* otherwise goes on to lock the pool.
ThreadsafePooledIter_call(t, op, c) ==
    LET item == TestIter_current(inner.data, c)
    IN  /\ variant = "ThreadsafePooledIter"
        /\ CanCall(t, op)
        /\ inner' = [inner EXCEPT !.cursor = c]
        /\ IF item = NoneIdx
           THEN /\ plast' = [Returned(op, t, "None") EXCEPT !.moved = (c # inner.cursor)]
                /\ UNCHANGED <<pc, pending, hist>>
           ELSE /\ pc' = [pc EXCEPT ![t] = "locking"]
                /\ pending' = [pending EXCEPT ![t] = op]
                /\ hist' = [hist EXCEPT !.moved = (c # inner.cursor)]
                /\ UNCHANGED plast
        /\ UNCHANGED <<variant, num_buffers, adapter, pool, items, mutex, poisoned, mvars>>

ThreadsafePooledIter_next ==
    \E t \in Threads : ThreadsafePooledIter_call(t, "next", TestIter_next(inner.data, inner.cursor))
ThreadsafePooledIter_try_next ==
    \E t \in Threads : ThreadsafePooledIter_call(t, "try_next", TestIter_next(inner.data, inner.cursor))
ThreadsafePooledIter_current ==
    \E t \in Threads : ThreadsafePooledIter_call(t, "current", inner.cursor)
ThreadsafePooledIter_try_current ==
    \E t \in Threads : ThreadsafePooledIter_call(t, "try_current", inner.cursor)
ThreadsafePooledIter_prev ==
    \E t \in Threads : ThreadsafePooledIter_call(t, "prev", TestIter_prev(inner.data, inner.cursor))
ThreadsafePooledIter_try_prev ==
    \E t \in Threads : ThreadsafePooledIter_call(t, "try_prev", TestIter_prev(inner.data, inner.cursor))

\* Thread t leaves its call by a panic; a guard it held is dropped while
\* panicking, which poisons the Mutex.
Panic(t, holds_guard) ==
    /\ pc' = [pc EXCEPT ![t] = "panicked"]
    /\ pending' = [pending EXCEPT ![t] = NoCall]
    /\ plast' = Returned(pending[t], t, "panic")
    /\ poisoned' = (poisoned \/ holds_guard)
    /\ mutex' = 0
    /\ hist' = [hist EXCEPT !.blocked[t] = "none", !.moved = FALSE]

\* Thread t leaves its call with the PoolItem made from the scan result r.
TakeBuffer(t, r) ==
    /\ pool' = r.pool
    /\ items' = items (+) SetToBag({PoolItem(LentItem, r.slot)})
    /\ pc' = [pc EXCEPT ![t] = "idle"]
    /\ pending' = [pending EXCEPT ![t] = NoCall]
    /\ plast' = Returned(pending[t], t, "Some")
    /\ mutex' = 0
    /\ Acquired(t)
    /\ UNCHANGED poisoned

\* A try_fill_buffer that drops the guard after a failed scan of fill_buffer
\* too, so that the wait has to lock the Mutex again.
ThreadsafePool_try_fill_buffer_drops_guard ==
    \E t \in Threads :
        /\ pc[t] = "locking"
        /\ mutex = 0
        /\ IF poisoned
           THEN Panic(t, FALSE) /\ UNCHANGED <<pool, items>>
           ELSE LET r == try_fill_buffer(pool)
                IN  IF r.ok
                    THEN TakeBuffer(t, r)
                    ELSE IF pending[t] \in TryOps
                    THEN /\ pc' = [pc EXCEPT ![t] = "idle"]
                         /\ pending' = [pending EXCEPT ![t] = NoCall]
                         /\ plast' = Returned(pending[t], t, "OutOfBuffers")
                         /\ hist' = [hist EXCEPT !.moved = FALSE]
                         /\ UNCHANGED <<pool, items, mutex, poisoned>>
                    ELSE /\ pc' = [pc EXCEPT ![t] = "scanned"]
                         /\ mutex' = 0
                         /\ hist' = [hist EXCEPT !.blocked[t] = "blocked"]
                         /\ UNCHANGED <<pool, items, pending, poisoned, plast>>
        /\ UNCHANGED <<variant, num_buffers, adapter, inner, mvars>>

\* ThreadsafePool::try_fill_buffer by thread t: pool_contents() locks the Mutex
\* and unwraps the result (a panic when it is poisoned); then the scan. A try_*
\* call drops the guard and returns OutOfBuffers when the scan fails; fill_buffer
\* keeps the guard.
ThreadsafePool_try_fill_buffer ==
    \E t \in Threads :
        /\ pc[t] = "locking"
        /\ mutex = 0
        /\ IF poisoned
           THEN Panic(t, FALSE) /\ UNCHANGED <<pool, items>>
           ELSE LET r == try_fill_buffer(pool)
                IN  IF r.ok
                    THEN TakeBuffer(t, r)
                    ELSE IF pending[t] \in TryOps
                    THEN /\ pc' = [pc EXCEPT ![t] = "idle"]
                         /\ pending' = [pending EXCEPT ![t] = NoCall]
                         /\ plast' = Returned(pending[t], t, "OutOfBuffers")
                         /\ hist' = [hist EXCEPT !.moved = FALSE]
                         /\ UNCHANGED <<pool, items, mutex, poisoned>>
                    ELSE /\ pc' = [pc EXCEPT ![t] = "scanned"]
                         /\ mutex' = t
                         /\ hist' = [hist EXCEPT !.blocked[t] = "blocked"]
                         /\ UNCHANGED <<pool, items, pending, poisoned, plast>>
        /\ UNCHANGED <<variant, num_buffers, adapter, inner, mvars>>

\* A fill_buffer without the zero-buffer assertion.
assert_ne_never_fails(len) == FALSE

\* assert_ne!(pool_contents.len(), 0, ..) fails.
assert_ne_fails(len) == len = 0

\* ThreadsafePool::fill_buffer after the failed scan, the guard still held: the
\* zero-buffer assertion, then fill_buffer_fallback's Condvar::wait, which
\* releases the Mutex.
ThreadsafePool_fill_buffer ==
    \E t \in Threads :
        /\ pc[t] = "scanned"
        /\ IF assert_ne_fails(Len(pool))
           THEN Panic(t, TRUE)
           ELSE /\ pc' = [pc EXCEPT ![t] = "waiting"]
                /\ mutex' = 0
                /\ UNCHANGED <<pending, poisoned, plast, hist>>
        /\ UNCHANGED <<variant, num_buffers, adapter, inner, pool, items, mvars>>

\* One turn of the loop of ThreadsafePool::fill_buffer_fallback: Condvar::wait
\* ends for thread t and re-locks the Mutex. ThreadsafePoolItem::drop notifies
\* nobody, so a wait ends only spuriously, which std::sync::Condvar allows at any
\* time. The result of the wait is unwrapped (a panic when poisoned, the guard
\* inside the error), the slots are scanned again, and the thread waits again
\* when none holds a buffer.
ThreadsafePool_fill_buffer_fallback ==
    \E t \in Threads :
        /\ pc[t] = "waiting"
        /\ mutex = 0
        /\ IF poisoned
           THEN Panic(t, TRUE) /\ UNCHANGED <<pool, items>>
           ELSE LET r == fallback_scan(pool)
                IN  IF r.ok
                    THEN TakeBuffer(t, r)
                    ELSE UNCHANGED <<pool, items, pc, pending, mutex, poisoned, plast, hist>>
        /\ UNCHANGED <<variant, num_buffers, adapter, inner, mvars>>

\* ThreadsafePoolItem::drop by a thread that is in no call: pool_contents()
\* (lock, unwrap), then the buffer goes back into the slot the item recorded.
ThreadsafePoolItem_drop ==
    \E t \in Threads, x \in BagToSet(items) :
        /\ variant = "ThreadsafePooledIter"
        /\ pc[t] = "idle"
        /\ mutex = 0
        /\ IF poisoned
           THEN /\ pc' = [pc EXCEPT ![t] = "panicked"]
                /\ plast' = Returned("drop", t, "panic")
                /\ UNCHANGED <<pool, items, hist>>
           ELSE /\ pool' = put_back(pool, x)
                /\ items' = items (-) SetToBag({x})
                /\ Dropped
                /\ UNCHANGED <<pc, plast>>
        /\ UNCHANGED <<variant, num_buffers, adapter, inner, pending, mutex, poisoned, mvars>>

\* What a call that only reads the pool returns: a number, or a panic.
Returns(n) == [ok |-> TRUE, value |-> n]
Panics == [ok |-> FALSE, value |-> 0]

\* pool_contents() of a call that only reads the pool: the ThreadsafePooledIter
\* locks the Mutex and unwraps the result, a panic when the Mutex is poisoned;
\* the PooledIter reads the Vec through the UnsafeCell.
pool_contents_panics == variant = "ThreadsafePooledIter" /\ poisoned

\* buffer_pool_size(): the length of the Vec.
buffer_pool_size == IF pool_contents_panics THEN Panics ELSE Returns(Len(pool))

\* available_buffers(): the sum over the slots of 1 where slot.is_none() and 0
\* otherwise.
available_buffers ==
    IF pool_contents_panics
    THEN Panics
    ELSE Returns(Cardinality({j \in 1..Len(pool) : pool[j] = NoneIdx}))

\* A Seekable call that also takes a buffer out of the pool for the entry it
\* lands on.
Seekable_call_takes_buffer(v, cs) ==
    /\ variant = v
    /\ IF v = "PooledIter"
       THEN pc[1] = "idle" /\ adapter.kind = "none"
       ELSE \E t \in Threads : CanCall(t, "seek")
    /\ \E c \in cs : inner' = [inner EXCEPT !.cursor = c]
    /\ pool' = try_fill_buffer(pool).pool
    /\ plast' = [NoPlast EXCEPT !.op = "Seekable", !.result = "()"]
    /\ UNCHANGED <<variant, num_buffers, adapter, items, pc, pending, mutex, poisoned, hist, mvars>>

\* A Seekable call on a pooled iterator of variant v, which may leave the inner
\* cursor at any of cs: the call goes to the inner iterator and touches neither
\* the pool nor a PoolItem.  It takes &mut self, so no other call is running,
\* and it returns ().
Seekable_call(v, cs) ==
    /\ variant = v
    /\ IF v = "PooledIter"
       THEN pc[1] = "idle" /\ adapter.kind = "none"
       ELSE \E t \in Threads : CanCall(t, "seek")
    /\ \E c \in cs : inner' = [inner EXCEPT !.cursor = c]
    /\ plast' = [NoPlast EXCEPT !.op = "Seekable", !.result = "()"]
    /\ UNCHANGED <<variant, num_buffers, adapter, pool, items, pc, pending, mutex, poisoned, hist, mvars>>

PooledIter_reset == Seekable_call("PooledIter", {TestIter_reset})
PooledIter_seek ==
    \E min_bound \in SeekKeys : Seekable_call("PooledIter", TestIter_seek(inner.data, min_bound))
PooledIter_seek_before ==
    \E strict_upper_bound \in SeekKeys :
        Seekable_call("PooledIter", TestIter_seek_before(inner.data, strict_upper_bound))
PooledIter_seek_to_first == Seekable_call("PooledIter", {TestIter_seek_to_first(inner.data)})
PooledIter_seek_to_last == Seekable_call("PooledIter", {TestIter_seek_to_last(inner.data)})

ThreadsafePooledIter_reset == Seekable_call("ThreadsafePooledIter", {TestIter_reset})
ThreadsafePooledIter_seek ==
    \E min_bound \in SeekKeys :
        Seekable_call("ThreadsafePooledIter", TestIter_seek(inner.data, min_bound))
ThreadsafePooledIter_seek_before ==
    \E strict_upper_bound \in SeekKeys :
        Seekable_call("ThreadsafePooledIter", TestIter_seek_before(inner.data, strict_upper_bound))
ThreadsafePooledIter_seek_to_first ==
    Seekable_call("ThreadsafePooledIter", {TestIter_seek_to_first(inner.data)})
ThreadsafePooledIter_seek_to_last ==
    Seekable_call("ThreadsafePooledIter", {TestIter_seek_to_last(inner.data)})

\* PooledIter::new(iter, n) or ThreadsafePooledIter::new(iter, n) over a TestIter.
InitPool ==
    /\ MergingIter_new(<<>>)
    /\ \E v \in {"PooledIter", "ThreadsafePooledIter"},
          d \in {x \in SortedSeqs : TestIter_new(x) /\ \A j \in 1..Len(x) : x[j] <= MaxItem},
          n \in 0..MaxBuffers :
        \/ NewCalled(IF v = "PooledIter" THEN "PooledIter::new" ELSE "ThreadsafePooledIter::new",
                     d, n)
        \/ BufferPool(v, d, n)

NextPool ==
    \/ PooledIter_new
    \/ ThreadsafePooledIter_new
    \/ PooledIter_next
    \/ PooledIter_try_next
    \/ PooledIter_current
    \/ PooledIter_try_current
    \/ PooledIter_prev
    \/ PooledIter_try_prev
    \/ PooledIter_reset
    \/ PooledIter_seek
    \/ PooledIter_seek_before
    \/ PooledIter_seek_to_first
    \/ PooledIter_seek_to_last
    \/ PoolItem_drop
    \/ ThreadsafePooledIter_next
    \/ ThreadsafePooledIter_try_next
    \/ ThreadsafePooledIter_current
    \/ ThreadsafePooledIter_try_current
    \/ ThreadsafePooledIter_prev
    \/ ThreadsafePooledIter_try_prev
    \/ ThreadsafePooledIter_reset
    \/ ThreadsafePooledIter_seek
    \/ ThreadsafePooledIter_seek_before
    \/ ThreadsafePooledIter_seek_to_first
    \/ ThreadsafePooledIter_seek_to_last
    \/ ThreadsafePool_try_fill_buffer
    \/ ThreadsafePool_fill_buffer
    \/ ThreadsafePool_fill_buffer_fallback
    \/ ThreadsafePoolItem_drop

SpecPool == InitPool /\ [][NextPool]_vars

\* A ThreadsafePooledIter whose waits end only when the Condvar is notified.
\* No code of the crate calls notify_one or notify_all (ThreadsafePoolItem::drop
\* does not), so no step ends a wait; the scheduling is fair to whatever can run.
InitNotify ==
    /\ MergingIter_new(<<>>)
    /\ \E d \in {x \in SortedSeqs : TestIter_new(x) /\ \A j \in 1..Len(x) : x[j] <= MaxItem},
          n \in 0..MaxBuffers :
        BufferPool("ThreadsafePooledIter", d, n)

NextNotify ==
    \/ ThreadsafePooledIter_next
    \/ ThreadsafePooledIter_try_next
    \/ ThreadsafePooledIter_current
    \/ ThreadsafePooledIter_try_current
    \/ ThreadsafePooledIter_prev
    \/ ThreadsafePooledIter_try_prev
    \/ ThreadsafePool_try_fill_buffer
    \/ ThreadsafePool_fill_buffer
    \/ ThreadsafePoolItem_drop

SpecNotify == InitNotify /\ [][NextNotify]_vars /\ WF_vars(NextNotify)

\* ------------------------------ lender_adapter.rs, lending_iterator_adapter.rs

\* The two adapters of a PooledIterator: PooledIterator::into_lender and
\* PooledIterator::into_lending_iterator build them. Their code is the same
\* line for line; here they wrap a PooledIter.
AdapterKinds == {"PooledLenderAdapter", "PooledLendingIteratorAdapter"}

\* An adapter that does not drop the item it holds before it asks for the next
\* one: the old PoolItem is alive, and its slot empty, during the call.
item_kept(p, x) == p

\* self.item = None, the first line of next and prev of the adapters: the pool
\* after the PoolItem x in `item` (if any) is dropped.
item_set_None(p, x) == IF x = NoItem THEN p ELSE put_back(p, x)

\* into_lender and into_lending_iterator: the PooledIter moves into a new
\* adapter whose `item` is None. PoolItems handed out before stay with the caller.
Adapter_new(kind) ==
    /\ variant = "PooledIter"
    /\ adapter.kind = "none"
    /\ pc[1] = "idle"
    /\ adapter' = [kind |-> kind, item |-> NoItem, dropped |-> FALSE]
    /\ plast' = [NoPlast EXCEPT !.op = "new", !.result = "()"]
    /\ UNCHANGED <<variant, num_buffers, inner, pool, items, pc, pending, mutex, poisoned,
                   hist, mvars>>

PooledIterator_into_lender == Adapter_new("PooledLenderAdapter")
PooledIterator_into_lending_iterator == Adapter_new("PooledLendingIteratorAdapter")

\* next and prev of an adapter, the inner cursor going to c: self.item = None,
\* then self.item = self.iter.next() (or prev()), which is PooledIter::next: None
\* when the inner iterator yields nothing, else Pool::fill_buffer, which panics
\* when no slot holds a buffer.
Adapter_call(kind, op, c) ==
    LET old == adapter.item
        p == item_set_None(pool, old)
        live == IF old = NoItem THEN items ELSE items (-) SetToBag({old})
        item == TestIter_current(inner.data, c)
        r == try_fill_buffer(p)
        Ret(result) ==
            [Returned(op, 1, result) EXCEPT !.full = (BagCardinality(live) = Len(pool)),
                                            !.moved = (c # inner.cursor)]
    IN  /\ variant = "PooledIter"
        /\ adapter.kind = kind
        /\ pc[1] = "idle"
        /\ inner' = [inner EXCEPT !.cursor = c]
        /\ IF item # NoneIdx /\ r.ok
           THEN /\ pool' = r.pool
                /\ items' = live (+) SetToBag({PoolItem(item, r.slot)})
                /\ adapter' = [adapter EXCEPT !.item = PoolItem(item, r.slot),
                                              !.dropped = (old # NoItem)]
                /\ plast' = Ret("Some")
                /\ Acquired(1)
                /\ UNCHANGED pc
           ELSE /\ pool' = p
                /\ items' = live
                /\ adapter' = [adapter EXCEPT !.item = NoItem, !.dropped = (old # NoItem)]
                /\ IF old # NoItem THEN Dropped ELSE UNCHANGED hist
                /\ IF item = NoneIdx
                   THEN plast' = Ret("None") /\ UNCHANGED pc
                   ELSE plast' = Ret("panic") /\ pc' = [pc EXCEPT ![1] = "panicked"]
        /\ UNCHANGED <<variant, num_buffers, pending, mutex, poisoned, mvars>>

\* current of an adapter: self.item.as_ref(), the item it holds.
Adapter_current(kind) ==
    /\ variant = "PooledIter"
    /\ adapter.kind = kind
    /\ pc[1] = "idle"
    /\ plast' = [NoPlast EXCEPT !.op = "current",
                                !.result = IF adapter.item = NoItem THEN "None" ELSE "Some"]
    /\ UNCHANGED <<variant, num_buffers, adapter, inner, pool, items, pc, pending, mutex,
                   poisoned, hist, mvars>>

\* delegate_seekable!: a Seekable call on an adapter goes to the Seekable call of
\* the PooledIter, which goes to the inner iterator; `item` is not touched.
Adapter_Seekable(kind, cs) ==
    /\ variant = "PooledIter"
    /\ adapter.kind = kind
    /\ pc[1] = "idle"
    /\ \E c \in cs : inner' = [inner EXCEPT !.cursor = c]
    /\ plast' = [NoPlast EXCEPT !.op = "Seekable", !.result = "()"]
    /\ UNCHANGED <<variant, num_buffers, adapter, pool, items, pc, pending, mutex, poisoned,
                   hist, mvars>>

\* into_inner: the PooledIter is moved out and the rest of the adapter, the
\* PoolItem in `item`, is dropped.
Adapter_into_inner(kind) ==
    LET old == adapter.item
    IN  /\ variant = "PooledIter"
        /\ adapter.kind = kind
        /\ pc[1] = "idle"
        /\ adapter' = NoAdapter
        /\ pool' = IF old = NoItem THEN pool ELSE put_back(pool, old)
        /\ items' = IF old = NoItem THEN items ELSE items (-) SetToBag({old})
        /\ IF old # NoItem THEN Dropped ELSE UNCHANGED hist
        /\ UNCHANGED <<variant, num_buffers, inner, pc, pending, mutex, poisoned, plast, mvars>>

PooledLenderAdapter_next ==
    Adapter_call("PooledLenderAdapter", "next", TestIter_next(inner.data, inner.cursor))
PooledLenderAdapter_prev ==
    Adapter_call("PooledLenderAdapter", "prev", TestIter_prev(inner.data, inner.cursor))
PooledLenderAdapter_current == Adapter_current("PooledLenderAdapter")
PooledLenderAdapter_into_inner == Adapter_into_inner("PooledLenderAdapter")
PooledLenderAdapter_reset == Adapter_Seekable("PooledLenderAdapter", {TestIter_reset})
PooledLenderAdapter_seek ==
    \E min_bound \in SeekKeys :
        Adapter_Seekable("PooledLenderAdapter", TestIter_seek(inner.data, min_bound))
PooledLenderAdapter_seek_before ==
    \E strict_upper_bound \in SeekKeys :
        Adapter_Seekable("PooledLenderAdapter",
                         TestIter_seek_before(inner.data, strict_upper_bound))
PooledLenderAdapter_seek_to_first ==
    Adapter_Seekable("PooledLenderAdapter", {TestIter_seek_to_first(inner.data)})
PooledLenderAdapter_seek_to_last ==
    Adapter_Seekable("PooledLenderAdapter", {TestIter_seek_to_last(inner.data)})

PooledLendingIteratorAdapter_next ==
    Adapter_call("PooledLendingIteratorAdapter", "next", TestIter_next(inner.data, inner.cursor))
PooledLendingIteratorAdapter_prev ==
    Adapter_call("PooledLendingIteratorAdapter", "prev", TestIter_prev(inner.data, inner.cursor))
PooledLendingIteratorAdapter_current == Adapter_current("PooledLendingIteratorAdapter")
PooledLendingIteratorAdapter_into_inner == Adapter_into_inner("PooledLendingIteratorAdapter")
PooledLendingIteratorAdapter_reset ==
    Adapter_Seekable("PooledLendingIteratorAdapter", {TestIter_reset})
PooledLendingIteratorAdapter_seek ==
    \E min_bound \in SeekKeys :
        Adapter_Seekable("PooledLendingIteratorAdapter", TestIter_seek(inner.data, min_bound))
PooledLendingIteratorAdapter_seek_before ==
    \E strict_upper_bound \in SeekKeys :
        Adapter_Seekable("PooledLendingIteratorAdapter",
                         TestIter_seek_before(inner.data, strict_upper_bound))
PooledLendingIteratorAdapter_seek_to_first ==
    Adapter_Seekable("PooledLendingIteratorAdapter", {TestIter_seek_to_first(inner.data)})
PooledLendingIteratorAdapter_seek_to_last ==
    Adapter_Seekable("PooledLendingIteratorAdapter", {TestIter_seek_to_last(inner.data)})

\* A PooledIter whose caller takes PoolItems from it, turns it into an adapter,
\* uses the adapter and takes the PooledIter out again.
InitAdapter ==
    /\ MergingIter_new(<<>>)
    /\ \E d \in {x \in SortedSeqs : TestIter_new(x) /\ \A j \in 1..Len(x) : x[j] <= MaxItem},
          n \in 0..MaxBuffers :
        BufferPool("PooledIter", d, n)

NextAdapter ==
    \/ PooledIter_next
    \/ PooledIter_current
    \/ PooledIter_prev
    \/ PoolItem_drop
    \/ PooledIterator_into_lender
    \/ PooledIterator_into_lending_iterator
    \/ PooledLenderAdapter_next
    \/ PooledLenderAdapter_prev
    \/ PooledLenderAdapter_current
    \/ PooledLenderAdapter_into_inner
    \/ PooledLenderAdapter_reset
    \/ PooledLenderAdapter_seek
    \/ PooledLenderAdapter_seek_before
    \/ PooledLenderAdapter_seek_to_first
    \/ PooledLenderAdapter_seek_to_last
    \/ PooledLendingIteratorAdapter_next
    \/ PooledLendingIteratorAdapter_prev
    \/ PooledLendingIteratorAdapter_current
    \/ PooledLendingIteratorAdapter_into_inner
    \/ PooledLendingIteratorAdapter_reset
    \/ PooledLendingIteratorAdapter_seek
    \/ PooledLendingIteratorAdapter_seek_before
    \/ PooledLendingIteratorAdapter_seek_to_first
    \/ PooledLendingIteratorAdapter_seek_to_last

SpecAdapter == InitAdapter /\ [][NextAdapter]_vars

\* --------------------------------------------------- claims on the MergingIter

\* Every item of every component: (component, index in its data).
AllItems == {x \in Iters \X (0..(MaxLen - 1)) : x[2] < Len(data[x[1]])}
ItemKey(x) == data[x[1]][x[2] + 1]
UnionKeys == {ItemKey(x) : x \in AllItems}
NoDupKeys == \A x, y \in AllItems : x # y => ItemKey(x) # ItemKey(y)
Visited == {trace[j] : j \in 1..Len(trace)}
EveryItemOnce == Len(trace) = Cardinality(AllItems) /\ Visited = AllItems
Min(S) == CHOOSE x \in S : \A y \in S : x <= y
Max(S) == CHOOSE x \in S : \A y \in S : x >= y

\* C1: over components with no key occurring twice, reset() (or new) followed by
\* next() until it returns None yields every item of every component exactly
\* once, in strictly ascending key order.
C1_ForwardTraversal ==
    (run.kind = "fwd" /\ run.origin = "reset" /\ run.done /\ NoDupKeys) =>
        /\ EveryItemOnce
        /\ \A j \in 1..(Len(trace) - 1) : ItemKey(trace[j]) < ItemKey(trace[j + 1])

\* A finished traversal from reset that interleaved two components.
C1_Witness ==
    /\ run.kind = "fwd" /\ run.origin = "reset" /\ run.done /\ NoDupKeys
    /\ last.op = "next" /\ Len(trace) >= 3
    /\ \E j \in 1..(Len(trace) - 2) :
        trace[j][1] # trace[j + 1][1] /\ trace[j + 1][1] # trace[j + 2][1]

\* C2: over components with no key occurring twice, seek_to_last() followed by
\* prev() until it returns None visits (the item current after seek_to_last, then
\* each item prev returns) every item exactly once, in strictly descending order.
C2_BackwardTraversal ==
    (run.kind = "bwd" /\ run.origin = "seek_to_last" /\ run.done /\ NoDupKeys) =>
        /\ EveryItemOnce
        /\ \A j \in 1..(Len(trace) - 1) : ItemKey(trace[j]) > ItemKey(trace[j + 1])

\* A finished backward traversal from seek_to_last that interleaved two components.
C2_Witness ==
    /\ run.kind = "bwd" /\ run.origin = "seek_to_last" /\ run.done /\ NoDupKeys
    /\ last.op = "prev" /\ Len(trace) >= 3
    /\ \E j \in 1..(Len(trace) - 2) :
        trace[j][1] # trace[j + 1][1] /\ trace[j + 1][1] # trace[j + 2][1]

\* C3: after seek(k) the iterator is at the smallest key >= k of the union, and
\* is invalid exactly when the union holds no key >= k.
C3_Seek ==
    last.op = "seek" =>
        LET geq == {k \in UnionKeys : k >= last.arg}
        IN  /\ valid <=> geq # {}
            /\ valid => current = Min(geq)

\* seek(k) made from a valid backwards position, landing on a key above k while
\* the union also holds smaller keys.
C3_Witness ==
    /\ last.op = "seek" /\ last.preKey # NoneIdx /\ last.preDir = "Backwards"
    /\ valid /\ current > last.arg
    /\ \E k \in UnionKeys : k < last.arg

\* C4: after seek_before(k) the iterator is at the largest key < k of the union,
\* and is invalid exactly when the union holds no key < k.
C4_SeekBefore ==
    last.op = "seek_before" =>
        LET lt == {k \in UnionKeys : k < last.arg}
        IN  /\ valid <=> lt # {}
            /\ valid => current = Max(lt)

\* seek_before(k) made from a valid forwards position, with k itself a key of
\* the union and larger keys present.
C4_Witness ==
    /\ last.op = "seek_before" /\ last.preKey # NoneIdx /\ last.preDir = "Forwards"
    /\ valid /\ last.arg \in UnionKeys
    /\ \E k \in UnionKeys : k > last.arg

\* C5: no distinct key is skipped. A next() made at key k leaves the iterator
\* invalid only if the union holds no key > k, and otherwise at a key k' >= k with
\* no key of the union strictly between k and k'; a prev() made at key k leaves it
\* invalid only if the union holds no key < k, and otherwise at k' <= k with no
\* key strictly between k' and k.
C5_NoDistinctKeySkipped ==
    /\ (last.op = "next" /\ last.preKey # NoneIdx) =>
        IF valid
        THEN /\ current >= last.preKey
             /\ ~\E k \in UnionKeys : last.preKey < k /\ k < current
        ELSE ~\E k \in UnionKeys : k > last.preKey
    /\ (last.op = "prev" /\ last.preKey # NoneIdx) =>
        IF valid
        THEN /\ current <= last.preKey
             /\ ~\E k \in UnionKeys : current < k /\ k < last.preKey
        ELSE ~\E k \in UnionKeys : k < last.preKey

\* A next() that switched the direction at a key two components share, and
\* moved to a larger key.
C5_Witness ==
    /\ last.op = "next" /\ last.preKey # NoneIdx /\ last.preDir = "Backwards"
    /\ Cardinality({x \in AllItems : ItemKey(x) = last.preKey}) >= 2
    /\ valid /\ current > last.preKey

\* C6: with equal keys in several components and within one component, next()
\* repeated from an invalid state yields every item exactly once in non-decreasing
\* key order before it returns None, and prev() repeated from an invalid state
\* yields every item exactly once in non-increasing key order.
C6_TraversalWithDuplicates ==
    /\ (run.kind = "fwd" /\ run.done) =>
        /\ EveryItemOnce
        /\ \A j \in 1..(Len(trace) - 1) : ItemKey(trace[j]) <= ItemKey(trace[j + 1])
    /\ (run.kind = "bwd" /\ run.origin # "seek_to_last" /\ run.done) =>
        /\ EveryItemOnce
        /\ \A j \in 1..(Len(trace) - 1) : ItemKey(trace[j]) >= ItemKey(trace[j + 1])

\* A finished backward traversal over two components, one holding a key twice
\* and the other holding the same key.
C6_Witness ==
    /\ run.kind = "bwd" /\ run.origin = "invalid" /\ run.done /\ last.op = "prev"
    /\ \E i, j \in Iters :
        /\ i # j
        /\ Len(data[i]) >= 2 /\ data[i][1] = data[i][2]
        /\ \E m \in 1..Len(data[j]) : data[j][m] = data[i][1]

\* The valid components positioned at key k.
IterSAt(k) == {i \in Iters : cursor[i] # NoneIdx /\ KeyAt(cursor, i) = k}
ValidKeys == {KeyAt(cursor, i) : i \in {j \in Iters : cursor[j] # NoneIdx}}

\* C7: among the valid components at the smallest key, find_smallest_iter (the
\* last step of next, seek and seek_to_first) makes the lowest index current;
\* among those at the largest key, find_largest_iter (the last step of prev,
\* seek_before and seek_to_last) makes the highest index current.
C7_TieBreak ==
    /\ (last.op \in {"next", "seek", "seek_to_first"} /\ ValidKeys # {}) =>
        current_iter = Min(IterSAt(Min(ValidKeys)))
    /\ (last.op \in {"prev", "seek_before", "seek_to_last"} /\ ValidKeys # {}) =>
        current_iter = Max(IterSAt(Max(ValidKeys)))

\* Two components tie at the smallest key after a seek.
C7_Witness ==
    /\ last.op = "seek" /\ ValidKeys # {}
    /\ Cardinality(IterSAt(Min(ValidKeys))) >= 2

\* ------------------------------------------------ claims on the pooled iterators

\* C8: on a pooled iterator of capacity N (either variant), a try_next(),
\* try_current() or try_prev() whose inner iterator yields an item while N
\* PoolItems are live returns the OutOfBuffers error; and the first try_next()
\* after a PoolItem was dropped whose inner iterator yields an item returns
\* Ok(Some(item)). (A call whose result is not None is one whose inner iterator
\* yielded an item.)
C8_TryOutOfBuffers ==
    /\ (plast.op \in TryOps /\ plast.result # "None" /\ plast.full)
           => plast.result = "OutOfBuffers"
    /\ (plast.op = "try_next" /\ plast.result # "None" /\ plast.afterDrop)
           => plast.result = "Some"

\* C9: no two live PoolItems carry the same slot index, and the slot of a live
\* PoolItem stays None (checked out), so that no scan hands it out again before
\* the item is dropped; in both variants and under every interleaving.
C9_SlotExclusive ==
    /\ \A x \in BagToSet(items) :
        /\ CopiesIn(x, items) = 1
        /\ \A y \in BagToSet(items) : x # y => x.pool_slot # y.pool_slot
        /\ pool[x.pool_slot + 1] = NoneIdx

\* C9 witness: on the threadsafe pool a waiting thread was handed a slot that
\* had been dropped while it waited, another PoolItem being live all the while.
C9_Witness ==
    /\ variant = "ThreadsafePooledIter"
    /\ BagCardinality(items) = 2
    /\ plast.result = "Some"
    /\ plast.blocked
    /\ plast.sawDrop

\* C10: on the threadsafe pool, a next(), current() or prev() that found every
\* slot checked out returns its PoolItem only after some PoolItem was dropped
\* since it found the pool empty.
C10_BlockedUntilDrop ==
    (/\ variant = "ThreadsafePooledIter"
     /\ plast.op \in BlockingOps
     /\ plast.result = "Some"
     /\ plast.blocked) => plast.sawDrop

\* C10 witness: capacity 1, the only PoolItem was held when another thread's call found
\* no buffer, and the call returned after the drop.
C10_Witness ==
    /\ variant = "ThreadsafePooledIter"
    /\ Len(pool) = 1
    /\ plast.op \in BlockingOps
    /\ plast.result = "Some"
    /\ plast.blocked
    /\ plast.sawDrop

\* C11: on the threadsafe pool, when a PoolItem is dropped while a thread waits
\* on the Condvar in a blocking next(), current() or prev(), the drop notifies a
\* waiter, so that (under fair scheduling, with no spurious wakeup) a call that
\* waited returns its PoolItem.
C11_DropWakesWaiter ==
    (\E t \in Threads : pc[t] = "waiting" /\ hist.blocked[t] = "dropped")
        ~> (plast.blocked /\ plast.result = "Some")

\* C12: on the single-threaded PooledIter, a next(), current() or prev() whose
\* inner iterator yields an item while every slot is checked out panics; it
\* returns no PoolItem, and no call is ever left waiting.
C12_SingleThreadPanics ==
    variant = "PooledIter" =>
        /\ (plast.op \in BlockingOps /\ plast.result # "None" /\ plast.full)
               => plast.result = "panic"
        /\ \A t \in Threads : pc[t] \in {"idle", "panicked"}

\* C12 witness: a blocking call panicked on a pool of at least one buffer, every
\* buffer being with a live PoolItem.
C12_Witness ==
    /\ variant = "PooledIter"
    /\ plast.op \in BlockingOps
    /\ plast.result = "panic"
    /\ plast.full
    /\ Len(pool) >= 1
    /\ BagCardinality(items) = Len(pool)

\* C13: PooledIter::new(iter, n) and ThreadsafePooledIter::new(iter, n) return
\* (they do not panic or run for ever) a pool of exactly n slots, and from then
\* on buffer_pool_size() returns n in every reachable state.
C13_NewBuildsPool ==
    /\ ~(plast.op \in {"PooledIter::new", "ThreadsafePooledIter::new"} /\ plast.result = "panic")
    /\ variant # "none" => buffer_pool_size = Returns(num_buffers)

\* The slots that are free: they hold a buffer.
FreeSlots == {j \in 1..Len(pool) : pool[j] # NoneIdx}

\* C14: available_buffers() returns the number of free slots (slots that are not
\* checked out): the capacity on a fresh pool, one less for each PoolItem handed
\* out, one more for each PoolItem dropped.
C14_AvailableBuffers ==
    variant # "none" => available_buffers = Returns(Cardinality(FreeSlots))

\* C15: a step that drops a PoolItem x makes the slot x recorded, which was
\* checked out, free again with x's buffer in it, removes x alone from the live
\* PoolItems, and leaves every other slot and every other live PoolItem as it was.
C15_DropFrame ==
    [][BagCardinality(items') < BagCardinality(items) =>
          \E x \in BagToSet(items) :
              /\ items' = items (-) SetToBag({x})
              /\ pool[x.pool_slot + 1] = NoneIdx
              /\ pool' = [pool EXCEPT ![x.pool_slot + 1] = x.item]
              /\ pool'[x.pool_slot + 1] # NoneIdx]_vars

\* C15 witness: a PoolItem holding 1 was dropped into the second slot while the
\* PoolItem of the first slot stayed live.
C15_Witness ==
    /\ hist.sinceDrop
    /\ Len(pool) = 2
    /\ pool[2] = 1
    /\ \E x \in BagToSet(items) : x.pool_slot = 0

\* C16: on the threadsafe pool a poisoned Mutex is ignored: after a thread
\* panicked while it held the guard, buffer_pool_size() and available_buffers()
\* return as on an unpoisoned pool, and no try_next(), try_current(), try_prev()
\* or PoolItem drop panics.
C16_PoisonIgnored ==
    (variant = "ThreadsafePooledIter" /\ poisoned) =>
        /\ buffer_pool_size = Returns(Len(pool))
        /\ available_buffers.ok
        /\ plast.op \in TryOps \cup {"drop"} => plast.result # "panic"

\* C17: a try_next() or try_prev() that returns OutOfBuffers was not performed:
\* it leaves the inner iterator at the position it found it, so that a retry
\* yields the item the failed call would have yielded.
C17_OutOfBuffersNotPerformed ==
    (plast.op \in {"try_next", "try_prev"} /\ plast.result = "OutOfBuffers") => ~plast.moved

\* C18: on the threadsafe pool no try_next(), try_current() or try_prev() is
\* ever in the wait on the Condvar or keeps the guard after its scan; and one
\* that is made with an item to copy while no slot is free returns OutOfBuffers.
C18_TryNeverWaits ==
    variant = "ThreadsafePooledIter" =>
        /\ \A t \in Threads : pc[t] \in {"scanned", "waiting"} => pending[t] \in BlockingOps
        /\ (plast.op \in TryOps /\ plast.result # "None" /\ plast.full)
               => plast.result = "OutOfBuffers"

C20_ItemHoldsCopy ==
    [][\/ items' = items
       \/ \E x \in BagToSet(items) : items' = items (-) SetToBag({x})
       \/ \E x \in BagToSet(items') :
              /\ items' = items (+) SetToBag({x})
              /\ x.item # NoneIdx
              /\ x.item = TestIter_current(inner'.data, inner'.cursor)]_vars

\* C20 witness: on a pool of 2 buffers, two PoolItems holding different values
\* are live, the later one returned by next(), current() or prev() after the
\* inner iterator had moved on from the item of the earlier one.
C20_Witness ==
    /\ Len(pool) = 2
    /\ plast.op \in BlockingOps
    /\ plast.result = "Some"
    /\ BagCardinality(items) = 2
    /\ \E x, y \in BagToSet(items) : x.item # y.item

\* C21: a step in which reset(), seek(), seek_before(), seek_to_first() or
\* seek_to_last() of a PooledIter or ThreadsafePooledIter returns changes at most
\* the position of the inner iterator: the slot table of the pool, the live
\* PoolItems and the data of the inner iterator are as before, so no buffer was
\* acquired.
C21_SeekLeavesPool ==
    [][(/\ plast'.op = "Seekable"
        /\ pc' = pc
        /\ (plast' # plast \/ inner' # inner)) =>
            /\ pool' = pool
            /\ items' = items
            /\ inner'.data = inner.data
            /\ mutex' = mutex /\ poisoned' = poisoned]_vars

\* C21 witness: a Seekable call returned on a pool with a buffer checked out and
\* a buffer free, leaving the inner iterator on an entry other than the one the
\* live PoolItem holds.
C21_Witness ==
    /\ plast.op = "Seekable"
    /\ \E j \in 1..Len(pool) : pool[j] = NoneIdx
    /\ \E j \in 1..Len(pool) : pool[j] # NoneIdx
    /\ inner.cursor # NoneIdx
    /\ \E x \in BagToSet(items) : x.item # TestIter_current(inner.data, inner.cursor)

\* The components whose iterator is valid().
ValidIters == {i \in Iters : cursor[i] # NoneIdx}

\* C22: after every public operation of a MergingIter, current_iter is None
\* exactly when every component iterator is invalid, and when it is Some(i) the
\* component iterator i exists and is valid.
C22_CurrentIterValid ==
    /\ current_iter = 0 <=> ValidIters = {}
    /\ current_iter # 0 => current_iter \in ValidIters

\* C22 witness: a prev() that ran one component off its front left another
\* component current, and a next() left every component invalid.
C22_Witness ==
    \/ /\ last.op = "prev" /\ last.preKey # NoneIdx
       /\ current_iter # 0
       /\ \E i \in Iters : Len(data[i]) > 0 /\ i \notin ValidIters
    \/ /\ last.op = "next" /\ last.preKey # NoneIdx
       /\ current_iter = 0
       /\ NumIters = 2 /\ \A i \in Iters : Len(data[i]) > 0

\* C23: after every public operation that leaves a MergingIter valid, every
\* other valid component is non-strictly ahead of the current one when the
\* direction is Forwards (its key is >=) and non-strictly behind it when the
\* direction is Backwards (its key is <=).
C23_DirectionSide ==
    valid =>
        \A i \in ValidIters \ {current_iter} :
            IF direction = "Forwards"
            THEN KeyAt(cursor, i) >= current
            ELSE KeyAt(cursor, i) <= current

\* C23 witness: a prev() that switched the direction from Forwards left the
\* iterator valid with another valid component strictly behind the current one.
C23_Witness ==
    /\ last.op = "prev" /\ last.preDir = "Forwards" /\ last.preKey # NoneIdx
    /\ valid /\ direction = "Backwards"
    /\ \E i \in ValidIters \ {current_iter} : KeyAt(cursor, i) < current

\* C24: in every reachable state of a MergingIter valid() is true exactly when
\* current() is Some, and the item a next() or prev() returned is the item
\* current() returns right after the call.
C24_ValidIffCurrent ==
    /\ valid <=> current # NoneIdx
    /\ last.op \in {"next", "prev"} => last.ret = current

\* C24 witness: a next() made at a valid position returned an item other than
\* the one it was called at, and the iterator is valid.
C24_Witness ==
    /\ last.op = "next" /\ last.preKey # NoneIdx
    /\ valid /\ last.ret # NoneIdx /\ last.ret # last.preKey

\* C25: a MergingIter is circular. A next() made while it is invalid, over
\* components whose union is not empty, leaves it valid at the smallest key of
\* the union and returns that item; a prev() made while it is invalid leaves it
\* at the largest key of the union and returns that item. This covers the
\* next() that follows the next() which returned None after the last item.
C25_Circular ==
    [][(~valid /\ UnionKeys # {}) =>
        /\ last'.op = "next" =>
            valid' /\ current' = Min(UnionKeys) /\ last'.ret = Min(UnionKeys)
        /\ last'.op = "prev" =>
            valid' /\ current' = Max(UnionKeys) /\ last'.ret = Max(UnionKeys)]_vars

\* C25 witness: the iterator had become invalid by a call other than new or
\* reset (a next() that ran off the end, or a seek past it), and the next() that
\* followed landed on the smallest key of the union, which the second of two
\* non-empty components holds.
C25_Witness ==
    /\ last.op = "next" /\ last.preKey = NoneIdx /\ last.preDir = "Forwards"
    /\ run.kind = "fwd" /\ run.origin = "invalid"
    /\ valid /\ current_iter = 2 /\ current = Min(UnionKeys)
    /\ \A i \in Iters : Len(data[i]) > 0
    /\ Cardinality(UnionKeys) >= 2

\* C26: a MergingIter with no component, or whose components are all empty, is
\* invalid after every operation: valid() is false, current() is None, and the
\* next() or prev() that was called last returned None.
C26_EmptyStaysInvalid ==
    UnionKeys = {} =>
        /\ ~valid
        /\ ValidIters = {}
        /\ current = NoneIdx
        /\ last.ret = NoneIdx

\* C26 witness: a prev() was called on a MergingIter over two empty components
\* after it had been moved backwards.
C26_Witness ==
    /\ UnionKeys = {} /\ NumIters = 2
    /\ last.op = "prev" /\ last.preDir = "Backwards"

\* C27: whatever state it is called in, seek_to_first() leaves a MergingIter at
\* the smallest key of the union and seek_to_last() at the largest key of the
\* union; each leaves it invalid exactly when every component is empty.
C27_SeekToEnds ==
    /\ last.op = "seek_to_first" =>
        /\ valid <=> UnionKeys # {}
        /\ valid => current = Min(UnionKeys)
    /\ last.op = "seek_to_last" =>
        /\ valid <=> UnionKeys # {}
        /\ valid => current = Max(UnionKeys)

\* C27 witness: seek_to_last() was called at a valid forwards position below the
\* largest key and left the iterator on the largest key, which only the first
\* of two non-empty components holds.
C27_Witness ==
    /\ last.op = "seek_to_last" /\ last.preKey # NoneIdx /\ last.preDir = "Forwards"
    /\ valid /\ current > last.preKey
    /\ current_iter = 1 /\ NumIters = 2
    /\ Len(data[2]) > 0 /\ \A j \in 1..Len(data[2]) : data[2][j] < current

\* C28: whatever state it is called in, reset() leaves every component iterator
\* invalid, current_iter = None (valid() false, current() None) and direction =
\* Forwards; the next() that follows it returns the smallest key of the union
\* (None when the union is empty) and leaves the iterator there.
C28_Reset ==
    [][/\ last'.op = "reset" =>
            /\ \A i \in Iters : cursor'[i] = NoneIdx
            /\ current_iter' = 0
            /\ ~valid' /\ current' = NoneIdx
            /\ direction' = "Forwards"
       /\ (last.op = "reset" /\ last'.op = "next") =>
            IF UnionKeys = {}
            THEN last'.ret = NoneIdx /\ ~valid'
            ELSE last'.ret = Min(UnionKeys) /\ current' = Min(UnionKeys)]_vars

\* C28 witness: reset() was called at a valid backwards position of a
\* MergingIter over two components of two entries each; afterwards no component
\* is valid.
C28_Witness ==
    /\ last.op = "reset" /\ last.preKey # NoneIdx /\ last.preDir = "Backwards"
    /\ NumIters = 2 /\ \A i \in Iters : Len(data[i]) = 2
    /\ ValidIters = {}

\* The orders in which the components of the MergingIter can be supplied, and
\* the component list in the order p.
Perms == {p \in [Iters -> Iters] : \A i, j \in Iters : p[i] = p[j] => i = j}
Permuted(p) == [i \in Iters |-> data[p[i]]]

\* How often the key k occurs in the first n components of ds.
RECURSIVE CountKey(_, _, _)
CountKey(ds, n, k) ==
    IF n = 0 THEN 0
    ELSE CountKey(ds, n - 1, k) + Cardinality({j \in 1..Len(ds[n]) : ds[n][j] = k})

\* The keys from k up that the components ds hold, ascending, each as often as
\* it occurs; and the keys from k down, descending.
RECURSIVE AscendingFrom(_, _)
AscendingFrom(ds, k) ==
    IF k > MaxKey THEN <<>>
    ELSE [j \in 1..CountKey(ds, Len(ds), k) |-> k] \o AscendingFrom(ds, k + 1)
RECURSIVE DescendingFrom(_, _)
DescendingFrom(ds, k) ==
    IF k < 0 THEN <<>>
    ELSE [j \in 1..CountKey(ds, Len(ds), k) |-> k] \o DescendingFrom(ds, k - 1)

\* The first key of a sequence of keys, NoneIdx when it is empty.
FirstKey(s) == IF s = <<>> THEN NoneIdx ELSE s[1]

\* The keys of the items a traversal has visited, in order.
TraceKeys == [j \in 1..Len(trace) |-> ItemKey(trace[j])]

\* C29: the keys a MergingIter yields do not depend on the order of its
\* components. For every order p the components could have been supplied in, a
\* finished forward traversal has yielded the keys of the list in order p
\* ascending, a finished backward traversal has yielded them descending, seek(k)
\* is at the first of those keys >= k and seek_before(k) at the last of them < k.
C29_OrderIrrelevant ==
    \A p \in Perms :
        /\ (run.kind = "fwd" /\ run.done) => TraceKeys = AscendingFrom(Permuted(p), 0)
        /\ (run.kind = "bwd" /\ run.done) => TraceKeys = DescendingFrom(Permuted(p), MaxKey)
        /\ last.op = "seek" =>
            current = FirstKey(SelectSeq(AscendingFrom(Permuted(p), 0), LAMBDA k : k >= last.arg))
        /\ last.op = "seek_before" =>
            current = FirstKey(SelectSeq(DescendingFrom(Permuted(p), MaxKey), LAMBDA k : k < last.arg))

\* C29 witness: a forward traversal finished over two different components
\* that share a key, so that the order of the components decides which of them
\* yields the shared key first.
C29_Witness ==
    /\ run.kind = "fwd" /\ run.done /\ last.op = "next"
    /\ NumIters = 2 /\ data[1] # data[2]
    /\ Len(trace) >= 3
    /\ \E j \in 1..(Len(trace) - 1) :
        TraceKeys[j] = TraceKeys[j + 1] /\ trace[j][1] # trace[j + 1][1]

\* The live PoolItems the caller holds, outside the adapter.
OutsideItems == IF adapter.item = NoItem THEN items ELSE items (-) SetToBag({adapter.item})

\* The slots whose buffer is checked out to the adapter: empty, and of no
\* PoolItem that the caller holds.
AdapterSlots ==
    {j \in 1..Len(pool) : pool[j] = NoneIdx} \ {x.pool_slot + 1 : x \in BagToSet(OutsideItems)}

\* C30: a PooledLenderAdapter or PooledLendingIteratorAdapter uses one buffer
\* at a time. After every step at most one slot of the pool is checked out to
\* the adapter, and that only while its `item` holds a PoolItem; and no step
\* taken on an adapter over a single-thread pool of at least one buffer, while
\* the caller holds no PoolItem, ends in a panic.
C30_OneBufferAtATime ==
    [][/\ adapter'.kind # "none" =>
            /\ Cardinality(AdapterSlots') <= 1
            /\ AdapterSlots' # {} => adapter'.item # NoItem
       /\ (adapter.kind # "none" /\ Len(pool) >= 1 /\ OutsideItems = EmptyBag) =>
            pc'[1] # "panicked"]_vars

\* C30 witness: on a pool of one buffer, with no PoolItem held by the caller,
\* next() of an adapter dropped the item it held and returned a new one.
C30_Witness ==
    /\ adapter.kind # "none" /\ adapter.dropped /\ adapter.item # NoItem
    /\ Len(pool) = 1 /\ OutsideItems = EmptyBag
    /\ plast.op = "next" /\ plast.result = "Some"

\* C31: when current() of a PooledLenderAdapter or PooledLendingIteratorAdapter
\* has returned, what it returned (the item in `item`, or None) is Some exactly
\* when valid() is true, that is when the inner iterator is at an entry, and is
\* then the item under the inner cursor.
C31_AdapterCurrent ==
    (adapter.kind # "none" /\ plast.op = "current") =>
        /\ plast.result = "Some" <=> inner.cursor # NoneIdx
        /\ adapter.item.item = TestIter_current(inner.data, inner.cursor)

ItemsBelow(k) == {x \in AllItems : ItemKey(x) < k}
ItemsAbove(k) == {x \in AllItems : ItemKey(x) > k}

\* The item a traversal that began with a direction switch started from is the
\* only item with its key.
SwitchKeyUnique ==
    /\ run.kind \in {"fwd_switch", "bwd_switch"}
    /\ \A x \in AllItems \ {trace[1]} : ItemKey(x) # ItemKey(trace[1])

\* The items yielded since the switch, in order.
Yielded == Tail(trace)

\* C33: a traversal that began with a direction switch at a key no other item
\* shares, and has run until None, has yielded every item with a smaller key
\* (prev) or with a larger key (next), each exactly once, in non-increasing
\* (prev) or non-decreasing (next) order of keys.
C33_SwitchLosesNothing ==
    (SwitchKeyUnique /\ run.done) =>
        /\ \A i, j \in 1..Len(Yielded) : i # j => Yielded[i] # Yielded[j]
        /\ run.kind = "bwd_switch" =>
            /\ {Yielded[j] : j \in 1..Len(Yielded)} = ItemsBelow(ItemKey(trace[1]))
            /\ \A j \in 1..(Len(Yielded) - 1) : ItemKey(Yielded[j]) >= ItemKey(Yielded[j + 1])
        /\ run.kind = "fwd_switch" =>
            /\ {Yielded[j] : j \in 1..Len(Yielded)} = ItemsAbove(ItemKey(trace[1]))
            /\ \A j \in 1..(Len(Yielded) - 1) : ItemKey(Yielded[j]) <= ItemKey(Yielded[j + 1])

\* Reached: a traversal backwards from a switch at a unique key has ended after
\* yielding three items, two of them with the same key.
C33_Witness ==
    /\ SwitchKeyUnique /\ run.done /\ run.kind = "bwd_switch"
    /\ Len(Yielded) = 3
    /\ \E i, j \in 1..3 : i # j /\ ItemKey(Yielded[i]) = ItemKey(Yielded[j])

\* The keys MergingIter::seek(k) and MergingIter::seek_before(k) can leave
\* current (NoneIdx for an invalid iterator), whatever the state they are
\* called in.
SeekResults(k) ==
    {MergingIter_current(cur, find_smallest_iter(cur)) :
        cur \in Choices([i \in Iters |-> TestIter_seek(data[i], k)])}
SeekBeforeResults(k) ==
    {MergingIter_current(cur, find_largest_iter(cur)) :
        cur \in Choices([i \in Iters |-> TestIter_seek_before(data[i], k)])}

\* C34: a next() that follows seek_before(k) leaves the current key seek(k)
\* leaves, and a prev() that follows seek(k) leaves the current key
\* seek_before(k) leaves, also when the seek left the iterator invalid.
C34_SeekAcross ==
    [][/\ (last.op = "seek_before" /\ last'.op = "next") =>
            current' \in SeekResults(last.arg)
       /\ (last.op = "seek" /\ last'.op = "prev") =>
            current' \in SeekBeforeResults(last.arg)]_vars

\* Reached: seek_before(k) left the iterator at a key that both components
\* hold, and the next() that followed moved it to a key not below k.
C34_Witness ==
    /\ run.kind = "fwd_switch" /\ run.origin = "seek_before" /\ last.op = "next"
    /\ Len(trace) = 2 /\ valid /\ current = ItemKey(trace[2])
    /\ current > ItemKey(trace[1])
    /\ \E x \in AllItems \ {trace[1]} : ItemKey(x) = ItemKey(trace[1])

\* The direction the documentation gives for the call that was made last; valid
\* and current have none of their own.
DirectionOf(op) ==
    IF op \in {"new", "reset", "seek", "seek_to_first", "next"} THEN {"Forwards"}
    ELSE IF op \in {"seek_before", "seek_to_last", "prev"} THEN {"Backwards"}
    ELSE {"Forwards", "Backwards"}

\* C35: the direction is Forwards after new, reset, seek, seek_to_first and
\* next, and Backwards after seek_before, seek_to_last and prev; a call of
\* valid() or current() leaves direction, current_iter and the position of every
\* component as they were.
C35_DirectionAfterCall ==
    /\ direction \in DirectionOf(last.op)
    /\ [][/\ direction' \in DirectionOf(last'.op)
          /\ last'.op \in {"valid", "current"} =>
                UNCHANGED <<direction, current_iter, cursor>>]_vars

\* Reached: seek_to_last has left the direction Backwards over components with
\* two keys or more, and current() called after it, before any step or seek,
\* has returned the largest key and left the direction Backwards.
C35_Witness ==
    /\ last.op = "current" /\ last.preDir = "Backwards" /\ direction = "Backwards"
    /\ run.origin = "seek_to_last" /\ Len(trace) = 1
    /\ last.ret = Max(UnionKeys) /\ Cardinality(UnionKeys) >= 2

\* C36: a next() made at a valid position with direction Forwards, and a prev()
\* made at a valid position with direction Backwards, leave the position of
\* every component other than current_iter as it was.
C36_StepMovesCurrentOnly ==
    [][((valid /\ direction = "Forwards" /\ last'.op = "next")
            \/ (valid /\ direction = "Backwards" /\ last'.op = "prev")) =>
        \A i \in Iters \ {current_iter} : cursor'[i] = cursor[i]]_vars

\* Reached: a next() made at a valid position with direction Forwards, in a
\* traversal that has yielded two items or more, has left both of two components
\* at an entry and the second of them current.
C36_Witness ==
    /\ last.op = "next" /\ last.preDir = "Forwards" /\ last.preKey # NoneIdx
    /\ run.kind = "fwd" /\ Len(trace) >= 2
    /\ NumIters = 2 /\ \A i \in Iters : cursor[i] # NoneIdx
    /\ current_iter = 2

\* The step is the call `op` on the pooled iterator of either variant.
PooledCall(op) ==
    CASE op = "next" -> PooledIter_next \/ ThreadsafePooledIter_next
      [] op = "try_next" -> PooledIter_try_next \/ ThreadsafePooledIter_try_next
      [] op = "current" -> PooledIter_current \/ ThreadsafePooledIter_current
      [] op = "try_current" -> PooledIter_try_current \/ ThreadsafePooledIter_try_current
      [] op = "prev" -> PooledIter_prev \/ ThreadsafePooledIter_prev
      [] op = "try_prev" -> PooledIter_try_prev \/ ThreadsafePooledIter_try_prev

C38_PoolConservation ==
    variant # "none" =>
        /\ Len(pool) = num_buffers
        /\ Cardinality(FreeSlots) + BagCardinality(items) = num_buffers
        /\ \A x \in BagToSet(items) :
            x.pool_slot + 1 \in (1..Len(pool)) \ FreeSlots

\* Reached: in a threadsafe pool of two buffers one is lent out and the other,
\* given back by a drop since the last acquisition, is free, while a thread is
\* inside a call.
C38_Witness ==
    /\ variant = "ThreadsafePooledIter" /\ num_buffers = 2
    /\ Cardinality(FreeSlots) = 1 /\ BagCardinality(items) = 1
    /\ hist.sinceDrop
    /\ \E t \in Threads : pc[t] \notin {"idle", "panicked"}

\* C39: a thread whose scan in fill_buffer found no buffer holds the lock until
\* it waits: while it is between the scan and the wait no slot is free, it owns
\* the mutex, and no step changes the slots or the live items (no drop happens);
\* its next step is the wait or the zero-buffer panic. A waiting thread leaves
\* the wait only with a buffer that a scan found free, or by a panic; a step
\* taken while no slot is free leaves it waiting.
C39_LockHeldUntilWait ==
    [][\A t \in Threads :
        /\ pc[t] = "scanned" =>
            /\ mutex = t /\ FreeSlots = {}
            /\ UNCHANGED <<pool, items>>
            /\ pc'[t] \in {"scanned", "waiting", "panicked"}
            /\ pc'[t] = "waiting" => mutex' = 0
        /\ pc[t] = "waiting" =>
            /\ pc'[t] \in {"waiting", "idle", "panicked"}
            /\ FreeSlots = {} => pc'[t] \in {"waiting", "panicked"}
            /\ pc'[t] = "idle" =>
                /\ BagCardinality(items') = BagCardinality(items) + 1
                /\ Cardinality(FreeSlots') = Cardinality(FreeSlots) - 1]_vars

\* Reached: a thread that had waited has come back with the buffer a drop set
\* free during its wait, and a thread is waiting now, with no slot free.
C39_Witness ==
    /\ plast.result = "Some" /\ plast.blocked /\ plast.sawDrop
    /\ FreeSlots = {} /\ Len(pool) >= 1
    /\ \E t \in Threads : pc[t] = "waiting"

====
